---- MODULE Spec2Model ----
(***************************************************************************)
(* Model of server/routes/images.js: the image routes of PicStore.         *)
(*                                                                         *)
(* The state is the Image collection (images), the objects held by the     *)
(* cloud store (storage), the next identifier the driver hands out         *)
(* (nextId), the number of requests taken in (served) and, for each        *)
(* request being served (slot), its inputs, the place it has reached       *)
(* between two awaits, the document it loaded, the error it logged and     *)
(* its response.                                                           *)
(* One action is one synchronous stretch of a handler: from one await to   *)
(* the next.  Strings the code looks into (names, search text) are         *)
(* sequences of one-character strings; a response message is the sequence *)
(* of the fragments the code concatenates.                                 *)
(***************************************************************************)
EXTENDS Integers, Sequences, FiniteSets

VARIABLES images, storage, nextId, slot, served

vars == <<images, storage, nextId, slot, served>>

\* ------------------------------------------------------------------ bounds
\* Image identifiers handed out (uploads that reach the save step).
MaxImages == 2
\* Requests that arrive while requests are served concurrently.
MaxRequests == 3

\* ------------------------------------------------------- program constants
\* limits.fileSize default
FILE_SIZE_LIMIT == 5000000
\* .limit(50) of the search
SEARCH_LIMIT == 50

\* allowedTypes default of the fileFilter
allowedTypes == {"image/jpeg", "image/png", "image/gif"}

\* ------------------------------------------------------------- environment
Procs == {"r1", "r2"}
\* The slot used when requests are served one at a time.
Worker == "r1"
Users == {"u1", "u2"}

\* The Folder collection: read, never written, by these routes.
Folders ==
  { [_id |-> "f1", owner |-> "u1", name |-> "holiday", path |-> "/holiday"],
    [_id |-> "f2", owner |-> "u2", name |-> "work", path |-> "/work"] }

\* Folder ids a client may send: "" is an absent or empty field, "fX" is the
\* id of no folder.
FolderIds == {"", "f1", "f2", "fX"}

\* Names a client may send (<<>> is an absent or empty field: both are
\* falsy).  The two names that are left after trimming differ, and differ
\* only in a character the public id replaces.
NameInputs ==
  { <<>>, <<" ">>, <<"a", "!">>, <<" ", "a", "!", " ">>, <<"a", "_">> }

\* Search texts a client may send.
SearchInputs == { <<>>, <<" ">>, <<" ", "A">>, <<"a", "!">> }

NoFile == [present |-> FALSE, fieldname |-> "", mimetype |-> "", size |-> 0]

\* Multipart file parts a client may send.
FileInputs ==
  { NoFile,
    [present |-> TRUE, fieldname |-> "image", mimetype |-> "image/png", size |-> 1000],
    [present |-> TRUE, fieldname |-> "image", mimetype |-> "text/plain", size |-> 1000],
    [present |-> TRUE, fieldname |-> "image", mimetype |-> "image/png", size |-> 5000001],
    [present |-> TRUE, fieldname |-> "avatar", mimetype |-> "image/png", size |-> 1000] }

\* Values Date.now() may return (a wall clock: two reads may agree).
ClockReadings == {1000, 1001}

\* The requests whose steps are interleaved: well-formed requests of one
\* user for one folder, whose names differ in surrounding blanks only, in
\* one character, or not at all.
RaceUsers == {"u1"}
RaceNames == { <<"a", "!">>, <<" ", "a", "!", " ">>, <<"a", "_">> }
RaceSearches == { <<" ", "A">> }
RaceFolderIds == {"f1"}
RaceFiles == { f \in FileInputs : f.present /\ f.fieldname = "image"
                                  /\ f.mimetype \in allowedTypes /\ f.size <= FILE_SIZE_LIMIT }

ImageIds == 1..MaxImages

\* --------------------------------------------------------- string helpers
Whitespace == {" "}
AlphaNum == {"a", "A"}

RECURSIVE TrimStart(_)
TrimStart(s) ==
  IF s # <<>> /\ Head(s) \in Whitespace THEN TrimStart(Tail(s)) ELSE s

RECURSIVE TrimEnd(_)
TrimEnd(s) ==
  IF s # <<>> /\ s[Len(s)] \in Whitespace
  THEN TrimEnd(SubSeq(s, 1, Len(s) - 1))
  ELSE s

\* String.prototype.trim
Trim(s) == TrimEnd(TrimStart(s))

\* !name || !name.trim()
Blank(s) == s = <<>> \/ Trim(s) = <<>>

\* name.trim().replace(/[^a-zA-Z0-9]/g, "_")
Sanitize(s) == [i \in DOMAIN s |-> IF s[i] \in AlphaNum THEN s[i] ELSE "_"]

ToLower(c) == IF c = "A" THEN "a" ELSE c

LowerCase(s) == [i \in DOMAIN s |-> ToLower(s[i])]

\* { $regex: q, $options: "i" } for a text without regex metacharacters:
\* q occurs in name, letter case ignored.
RegexMatchI(name, q) ==
  \E i \in 0..(Len(name) - Len(q)) :
    SubSeq(LowerCase(name), i + 1, i + Len(q)) = LowerCase(q)

CharCode(c) ==
  CASE c = " " -> 32
    [] c = "!" -> 33
    [] c = "A" -> 65
    [] c = "_" -> 95
    [] c = "a" -> 97

\* sort({ name: 1 }): names compared code unit by code unit.
RECURSIVE NameLeq(_, _)
NameLeq(a, b) ==
  IF a = <<>> THEN TRUE
  ELSE IF b = <<>> THEN FALSE
  ELSE IF CharCode(Head(a)) < CharCode(Head(b)) THEN TRUE
  ELSE IF CharCode(Head(a)) > CharCode(Head(b)) THEN FALSE
  ELSE NameLeq(Tail(a), Tail(b))

\* ------------------------------------------------------- collection helpers
\* The placement the upload asks for and the public id the store answers
\* with: `users/${owner}/images` and `${folderId}_${Date.now()}_${sanitized}`.
PublicId(owner, folderId, t, name) ==
  [folder |-> <<"users", owner, "images">>,
   public_id |-> <<folderId, t, Sanitize(Trim(name))>>]

SecureUrl(publicId) == [scheme |-> "https", public_id |-> publicId]

NoKey == [folder |-> <<>>, public_id |-> <<>>]

NoImage ==
  [id |-> 0, name |-> <<>>, cloudinaryUrl |-> SecureUrl(NoKey),
   cloudinaryPublicId |-> NoKey, folder |-> "", owner |-> "",
   size |-> 0, mimetype |-> ""]

\* new Image({...}) of the upload handler
NewImage(id, name, result, folderId, owner, file) ==
  [id |-> id, name |-> Trim(name), cloudinaryUrl |-> SecureUrl(result),
   cloudinaryPublicId |-> result, folder |-> folderId, owner |-> owner,
   size |-> file.size, mimetype |-> file.mimetype]

\* Folder.findOne({ _id: folderId, owner: req.user._id })
FolderOwned(folderId, caller) ==
  \E f \in Folders : f._id = folderId /\ f.owner = caller

\* A faulty variant of ExistingImage: the name is looked up as sent, untrimmed.
ExistingImageUntrimmed(store, caller, folderId, name) ==
  \E i \in store :
    i.owner = caller /\ i.folder = folderId /\ i.name = name

\* Image.findOne({ owner, folder: folderId, name: name.trim() })
ExistingImage(store, caller, folderId, name) ==
  \E i \in store :
    i.owner = caller /\ i.folder = folderId /\ i.name = Trim(name)

\* Image.findOne({ owner, folder, name: name.trim(), _id: { $ne: image._id } })
ExistingOtherImage(store, caller, image, name) ==
  \E i \in store :
    /\ i.owner = caller
    /\ i.folder = image.folder
    /\ i.name = Trim(name)
    /\ i.id # image.id

\* A faulty variant of FindOwnImage: the lookup is by _id alone.
FindImageById(store, id, caller) ==
  IF \E i \in store : i.id = id
  THEN CHOOSE i \in store : i.id = id
  ELSE NoImage

\* Image.findOne({ _id: req.params.id, owner: req.user._id })
FindOwnImage(store, id, caller) ==
  IF \E i \in store : i.id = id /\ i.owner = caller
  THEN CHOOSE i \in store : i.id = id /\ i.owner = caller
  ELSE NoImage

\* .populate("folder", "name path"): the folder reference replaced by the
\* selected fields of the folder document (null when it is gone).
Populate(image) ==
  IF \E f \in Folders : f._id = image.folder
  THEN LET f == CHOOSE g \in Folders : g._id = image.folder
       IN [image EXCEPT !.folder = [_id |-> f._id, name |-> f.name, path |-> f.path]]
  ELSE [image EXCEPT !.folder = [_id |-> "", name |-> "", path |-> ""]]

\* The orders .sort({ name: 1 }) may return a set of documents in: documents
\* of equal name come in either order.
SortedByName(docs) ==
  LET k == Cardinality(docs)
  IN { s \in [1..k -> docs] :
         /\ \A i, j \in 1..k : i # j => s[i] # s[j]
         /\ \A i \in 1..(k - 1) : NameLeq(s[i].name, s[i + 1].name) }

\* .limit(n)
Limit(found, n) == IF Len(found) <= n THEN found ELSE SubSeq(found, 1, n)

\* ------------------------------------------------------------- responses
Response(status, msg, body) == [status |-> status, msg |-> msg, body |-> body]

NoResponse == Response(0, <<>>, <<>>)

\* next(error): the error is handed to the application's error handling and
\* this router writes no response.
Forwarded(msg) == Response(0, msg, <<>>)

InvalidFileTypeMsg ==
  <<"Invalid file type. Only JPEG, PNG and GIF images are allowed.">>

\* messages.join(", ")
RECURSIVE Join(_)
Join(messages) ==
  IF messages = <<>> THEN <<>>
  ELSE IF Len(messages) = 1 THEN messages
  ELSE <<Head(messages), ", ">> \o Join(Tail(messages))

\* The messages of a ValidationError of the Image schema.
ValidationMessages == <<"name: invalid", "size: required">>

\* --------------------------------------------------------------- errors
\* What the handlers look at in a thrown error: name, code, message, errors.
Err(name, code, message, errors) ==
  [name |-> name, code |-> code, message |-> message, errors |-> errors]

\* A fault of the database driver (connection lost, cast failure, ...).
DbError == Err("MongoError", "", <<"database fault">>, <<>>)

\* Mongoose's rejection of a document that breaks the Image schema.
ValidationError ==
  Err("ValidationError", "", <<"Image validation failed">>, ValidationMessages)

\* save() of a loaded document that is no longer in the collection.
DocumentNotFoundError ==
  Err("DocumentNotFoundError", "", <<"No document found">>, <<>>)

\* A rejection of the cloud store.
StorageError == Err("Error", "", <<"cloud store fault">>, <<>>)

\* new Error("Invalid file type. ...") of the fileFilter
FileTypeError == Err("Error", "", InvalidFileTypeMsg, <<>>)

MulterError(code, message) == Err("MulterError", code, message, <<>>)

NoError == Err("", "", <<>>, <<>>)

\* console.error(label, error)
Logged(label, error) == [label |-> label, name |-> error.name]

NoLog == [label |-> "", name |-> ""]

\* ----------------------------------------------------------- request slots
Idle ==
  [kind |-> "idle", pc |-> "idle", caller |-> "", name |-> <<>>, fid |-> "",
   file |-> NoFile, id |-> 0, img |-> NoImage, key |-> NoKey,
   err |-> NoLog, resp |-> NoResponse]

\* res.status(s).json(...) or next(error): the request ends with what the
\* client and the log saw.
Reply(p, resp, log) ==
  slot' = [slot EXCEPT ![p].pc = "done", ![p].err = log, ![p].resp = resp]

Goto(p, pc) == slot' = [slot EXCEPT ![p].pc = pc]

AllIdle == \A p \in Procs : slot[p].kind = "idle"

\* The slots a request may arrive at.  Served one at a time, a request
\* arrives at the worker when no request is being served; served
\* concurrently, it arrives at any free slot, MaxRequests requests in all.
FreeSlots(mode) ==
  IF mode = "one at a time"
  THEN IF AllIdle THEN {Worker} ELSE {}
  ELSE IF served < MaxRequests
    THEN { p \in Procs : slot[p].kind = "idle" }
    ELSE {}

\* A request is taken in.
Admit(mode) ==
  served' = IF mode = "one at a time" THEN served ELSE served + 1

Uploading == { p \in Procs : slot[p].kind = "upload" /\ slot[p].pc # "done" }

Init ==
  /\ images = {}
  /\ storage = {}
  /\ nextId = 1
  /\ slot = [p \in Procs |-> Idle]
  /\ served = 0

\* The response has been sent; the slot serves the next request.
Respond(p) ==
  /\ slot[p].pc = "done"
  /\ slot' = [slot EXCEPT ![p] = Idle]
  /\ UNCHANGED <<images, storage, nextId, served>>

\* ------------------------------------------------------------ POST /upload
\* What multer's upload.single("image") makes of the file part: the field
\* name, then the fileFilter, then the size limit while the part streams in.
MulterIntake(file) ==
  IF ~file.present THEN NoError
  ELSE IF file.fieldname # "image"
    THEN MulterError("LIMIT_UNEXPECTED_FILE", <<"Unexpected field">>)
  ELSE IF file.mimetype \notin allowedTypes THEN FileTypeError
  ELSE IF file.size > FILE_SIZE_LIMIT
    THEN MulterError("LIMIT_FILE_SIZE", <<"File too large">>)
  ELSE NoError

\* router.use((error, req, res, next) => ...)
MulterErrorHandler(error) ==
  IF error.name = "MulterError"
  THEN IF error.code = "LIMIT_FILE_SIZE"
       THEN Response(400, <<"File size too large. Maximum size is 5MB.">>, <<>>)
       ELSE Response(400, <<"File upload error: ">> \o error.message, <<>>)
  ELSE Forwarded(error.message)

\* error.message.includes("Invalid file type"): of the messages of the
\* model, the fileFilter's alone holds these words.
IncludesInvalidFileType(message) ==
  \E k \in DOMAIN message : message[k] = InvalidFileTypeMsg[1]

\* The outer catch of the upload handler.
UploadOuterCatch(error) ==
  IF error.name = "ValidationError"
  THEN Response(400, Join(error.errors), <<>>)
  ELSE IF IncludesInvalidFileType(error.message)
  THEN Response(400, error.message, <<>>)
  ELSE Response(500, <<"Server error while uploading image">>, <<>>)

\* The inner catch of the upload handler.
UploadInnerCatch(error) ==
  Response(500, <<"Failed to upload image to cloud storage">>, <<>>)

UploadArrive(mode, users, names, folderIds, files) ==
  /\ nextId + Cardinality(Uploading) <= MaxImages
  /\ \E p \in FreeSlots(mode), u \in users, name \in names,
        folderId \in folderIds, file \in files :
       slot' = [slot EXCEPT ![p] =
                 [Idle EXCEPT !.kind = "upload", !.pc = "upload_intake",
                              !.caller = u, !.name = name, !.fid = folderId,
                              !.file = file]]
  /\ Admit(mode)
  /\ UNCHANGED <<images, storage, nextId>>

\* A faulty variant of UploadIntake: the folder id is looked at before the name.
UploadIntakeFolderFirst(p) ==
  /\ slot[p].pc = "upload_intake"
  /\ LET r == slot[p]
         e == MulterIntake(r.file)
     IN IF e # NoError THEN Reply(p, MulterErrorHandler(e), NoLog)
        ELSE IF r.fid = ""
          THEN Reply(p, Response(400, <<"Folder ID is required">>, <<>>), NoLog)
        ELSE IF Blank(r.name)
          THEN Reply(p, Response(400, <<"Image name is required">>, <<>>), NoLog)
        ELSE IF ~r.file.present
          THEN Reply(p, Response(400, <<"Image file is required">>, <<>>), NoLog)
        ELSE Goto(p, "upload_findFolder")
  /\ UNCHANGED <<images, storage, nextId, served>>

\* multer, then the handler up to its first await.
UploadIntake(p) ==
  /\ slot[p].pc = "upload_intake"
  /\ LET r == slot[p]
         e == MulterIntake(r.file)
     IN IF e # NoError THEN Reply(p, MulterErrorHandler(e), NoLog)
        ELSE IF Blank(r.name)
          THEN Reply(p, Response(400, <<"Image name is required">>, <<>>), NoLog)
        ELSE IF r.fid = ""
          THEN Reply(p, Response(400, <<"Folder ID is required">>, <<>>), NoLog)
        ELSE IF ~r.file.present
          THEN Reply(p, Response(400, <<"Image file is required">>, <<>>), NoLog)
        ELSE Goto(p, "upload_findFolder")
  /\ UNCHANGED <<images, storage, nextId, served>>

\* await Folder.findOne(...)
UploadFindFolder(p) ==
  /\ slot[p].pc = "upload_findFolder"
  /\ \E fault \in BOOLEAN :
       IF fault
       THEN Reply(p, UploadOuterCatch(DbError), Logged("Upload image error:", DbError))
       ELSE IF ~FolderOwned(slot[p].fid, slot[p].caller)
       THEN Reply(p, Response(404, <<"Folder not found">>, <<>>), NoLog)
       ELSE Goto(p, "upload_findImage")
  /\ UNCHANGED <<images, storage, nextId, served>>

\* await Image.findOne(...), then the upload to the cloud store is started
\* under a public id built from Date.now().
UploadFindImage(p) ==
  /\ slot[p].pc = "upload_findImage"
  /\ LET r == slot[p]
     IN \E fault \in BOOLEAN :
          IF fault
          THEN Reply(p, UploadOuterCatch(DbError), Logged("Upload image error:", DbError))
          ELSE IF ExistingImage(images, r.caller, r.fid, r.name)
          THEN Reply(p, Response(400, <<"Image with this name already exists in the folder">>, <<>>), NoLog)
          ELSE \E t \in ClockReadings :
                 slot' = [slot EXCEPT ![p].pc = "upload_cloudinary",
                                      ![p].key = PublicId(r.caller, r.fid, t, r.name)]
  /\ UNCHANGED <<images, storage, nextId, served>>

\* A faulty variant of UploadCloudinary: the record is written before the cloud store
\* has answered, so a failed upload leaves it behind.
UploadCloudinarySaveFirst(p) ==
  /\ slot[p].pc = "upload_cloudinary"
  /\ LET r == slot[p]
         image == NewImage(nextId, r.name, r.key, r.fid, r.caller, r.file)
     IN \E ok \in BOOLEAN :
          IF ok
          THEN /\ storage' = storage \cup {r.key}
               /\ images' = images
               /\ slot' = [slot EXCEPT ![p].pc = "upload_save", ![p].img = image]
          ELSE /\ Reply(p, UploadInnerCatch(StorageError),
                        Logged("Cloudinary upload error:", StorageError))
               /\ images' = images \cup {image}
               /\ UNCHANGED storage
  /\ nextId' = nextId + 1
  /\ UNCHANGED served

\* await uploadToCloudinary(...), then new Image({...}) and save() is started.
UploadCloudinary(p) ==
  /\ slot[p].pc = "upload_cloudinary"
  /\ LET r == slot[p]
     IN \E ok \in BOOLEAN :
          IF ok
          THEN /\ storage' = storage \cup {r.key}
               /\ nextId' = nextId + 1
               /\ slot' = [slot EXCEPT ![p].pc = "upload_save",
                             ![p].img = NewImage(nextId, r.name, r.key, r.fid, r.caller, r.file)]
          ELSE /\ Reply(p, UploadInnerCatch(StorageError),
                        Logged("Cloudinary upload error:", StorageError))
               /\ UNCHANGED <<storage, nextId>>
  /\ UNCHANGED <<images, served>>

\* A faulty variant of UploadSave: the write is refused when the name has been taken
\* since the request looked.
UploadSaveIfAbsent(p) ==
  /\ slot[p].pc = "upload_save"
  /\ \E error \in {NoError, ValidationError, DbError} :
       IF error = NoError
       THEN IF ExistingImage(images, slot[p].caller, slot[p].fid, slot[p].name)
            THEN /\ Reply(p, Response(400, <<"Image with this name already exists in the folder">>, <<>>), NoLog)
                 /\ UNCHANGED images
            ELSE /\ images' = images \cup {slot[p].img}
                 /\ Goto(p, "upload_populate")
       ELSE /\ Reply(p, UploadInnerCatch(error), Logged("Cloudinary upload error:", error))
            /\ UNCHANGED images
  /\ UNCHANGED <<storage, nextId, served>>

\* await image.save()
UploadSave(p) ==
  /\ slot[p].pc = "upload_save"
  /\ \E error \in {NoError, ValidationError, DbError} :
       IF error = NoError
       THEN /\ images' = images \cup {slot[p].img}
            /\ Goto(p, "upload_populate")
       ELSE /\ Reply(p, UploadInnerCatch(error), Logged("Cloudinary upload error:", error))
            /\ UNCHANGED images
  /\ UNCHANGED <<storage, nextId, served>>

\* await image.populate("folder", "name path"), then res.status(201)
UploadPopulate(p) ==
  /\ slot[p].pc = "upload_populate"
  /\ \E fault \in BOOLEAN :
       IF fault
       THEN Reply(p, UploadInnerCatch(DbError), Logged("Cloudinary upload error:", DbError))
       ELSE Reply(p, Response(201, <<>>, <<Populate(slot[p].img)>>), NoLog)
  /\ UNCHANGED <<images, storage, nextId, served>>

\* ---------------------------------------------------------------- PUT /:id
\* The catch of the rename handler.
RenameCatch(error) ==
  Response(500, <<"Server error while updating image">>, <<>>)

RenameArrive(mode, users, names) ==
  /\ \E p \in FreeSlots(mode), u \in users, id \in ImageIds, name \in names :
       slot' = [slot EXCEPT ![p] =
                 [Idle EXCEPT !.kind = "rename", !.pc = "rename_start",
                              !.caller = u, !.id = id, !.name = name]]
  /\ Admit(mode)
  /\ UNCHANGED <<images, storage, nextId>>

\* The handler up to its first await.
RenameStart(p) ==
  /\ slot[p].pc = "rename_start"
  /\ IF Blank(slot[p].name)
     THEN Reply(p, Response(400, <<"Image name is required">>, <<>>), NoLog)
     ELSE Goto(p, "rename_findImage")
  /\ UNCHANGED <<images, storage, nextId, served>>

\* await Image.findOne({ _id, owner }).populate(...)
RenameFindImage(p) ==
  /\ slot[p].pc = "rename_findImage"
  /\ LET r == slot[p]
         image == FindOwnImage(images, r.id, r.caller)
     IN \E fault \in BOOLEAN :
          IF fault
          THEN Reply(p, RenameCatch(DbError), Logged("Update image error:", DbError))
          ELSE IF image = NoImage
          THEN Reply(p, Response(404, <<"Image not found">>, <<>>), NoLog)
          ELSE slot' = [slot EXCEPT ![p].pc = "rename_findOther", ![p].img = image]
  /\ UNCHANGED <<images, storage, nextId, served>>

\* await Image.findOne({ ..., _id: { $ne: image._id } }), then
\* image.name = name.trim() and save() is started.
RenameFindOther(p) ==
  /\ slot[p].pc = "rename_findOther"
  /\ LET r == slot[p]
     IN \E fault \in BOOLEAN :
          IF fault
          THEN Reply(p, RenameCatch(DbError), Logged("Update image error:", DbError))
          ELSE IF ExistingOtherImage(images, r.caller, r.img, r.name)
          THEN Reply(p, Response(400, <<"Image with this name already exists in the folder">>, <<>>), NoLog)
          ELSE Goto(p, "rename_save")
  /\ UNCHANGED <<images, storage, nextId, served>>

\* A faulty variant of SaveName: the update selects by the old name, not by _id.
SaveNameByName(store, image, name) ==
  { IF i.name = image.name THEN [i EXCEPT !.name = Trim(name)] ELSE i : i \in store }

\* What save() of the loaded document writes: nothing when no path was
\* modified, else the modified path (name) of the document with that _id.
SaveName(store, image, name) ==
  { IF i.id = image.id THEN [i EXCEPT !.name = Trim(name)] ELSE i : i \in store }

\* await image.save(), then res.json(image)
RenameSave(p) ==
  /\ slot[p].pc = "rename_save"
  /\ LET r == slot[p]
         image == [r.img EXCEPT !.name = Trim(r.name)]
     IN \E fault \in BOOLEAN :
          IF fault
          THEN /\ Reply(p, RenameCatch(DbError), Logged("Update image error:", DbError))
               /\ UNCHANGED images
          ELSE IF image = r.img
          THEN /\ Reply(p, Response(200, <<>>, <<Populate(image)>>), NoLog)
               /\ UNCHANGED images
          ELSE IF ~\E i \in images : i.id = image.id
          THEN /\ Reply(p, RenameCatch(DocumentNotFoundError),
                        Logged("Update image error:", DocumentNotFoundError))
               /\ UNCHANGED images
          ELSE /\ images' = SaveName(images, r.img, r.name)
               /\ Reply(p, Response(200, <<>>, <<Populate(image)>>), NoLog)
  /\ UNCHANGED <<storage, nextId, served>>

\* ------------------------------------------------------------- DELETE /:id
\* The catch of the delete handler.
DeleteCatch(error) ==
  Response(500, <<"Server error while deleting image">>, <<>>)

DeleteArrive(mode, users) ==
  /\ \E p \in FreeSlots(mode), u \in users, id \in ImageIds :
       slot' = [slot EXCEPT ![p] =
                 [Idle EXCEPT !.kind = "delete", !.pc = "delete_findImage",
                              !.caller = u, !.id = id]]
  /\ Admit(mode)
  /\ UNCHANGED <<images, storage, nextId>>

\* await Image.findOne({ _id, owner })
DeleteFindImage(p) ==
  /\ slot[p].pc = "delete_findImage"
  /\ LET r == slot[p]
         image == FindOwnImage(images, r.id, r.caller)
     IN \E fault \in BOOLEAN :
          IF fault
          THEN Reply(p, DeleteCatch(DbError), Logged("Delete image error:", DbError))
          ELSE IF image = NoImage
          THEN Reply(p, Response(404, <<"Image not found">>, <<>>), NoLog)
          ELSE slot' = [slot EXCEPT ![p].pc = "delete_cloudinary", ![p].img = image]
  /\ UNCHANGED <<images, storage, nextId, served>>

\* A faulty variant of DeleteCloudinary: a failure of the cloud store is not caught
\* apart and aborts the request.
DeleteCloudinaryAborts(p) ==
  /\ slot[p].pc = "delete_cloudinary"
  /\ \E ok \in BOOLEAN :
       IF ok
       THEN /\ storage' = storage \ {slot[p].img.cloudinaryPublicId}
            /\ Goto(p, "delete_findByIdAndDelete")
       ELSE /\ Reply(p, DeleteCatch(StorageError), Logged("Delete image error:", StorageError))
            /\ UNCHANGED storage
  /\ UNCHANGED <<images, nextId, served>>

\* await deleteFromCloudinary(image.cloudinaryPublicId) in its own try/catch
DeleteCloudinary(p) ==
  /\ slot[p].pc = "delete_cloudinary"
  /\ \E ok \in BOOLEAN :
       IF ok
       THEN /\ storage' = storage \ {slot[p].img.cloudinaryPublicId}
            /\ Goto(p, "delete_findByIdAndDelete")
       ELSE /\ slot' = [slot EXCEPT ![p].pc = "delete_findByIdAndDelete",
                          ![p].err = Logged("Cloudinary delete error:", StorageError)]
            /\ UNCHANGED storage
  /\ UNCHANGED <<images, nextId, served>>

\* await Image.findByIdAndDelete(image._id), then res.json({ message })
DeleteFindByIdAndDelete(p) ==
  /\ slot[p].pc = "delete_findByIdAndDelete"
  /\ \E fault \in BOOLEAN :
       IF fault
       THEN /\ Reply(p, DeleteCatch(DbError), Logged("Delete image error:", DbError))
            /\ UNCHANGED images
       ELSE /\ images' = { i \in images : i.id # slot[p].img.id }
            /\ Reply(p, Response(200, <<"Image deleted successfully">>, <<>>), slot[p].err)
  /\ UNCHANGED <<storage, nextId, served>>

\* ------------------------------------------------------------------ GET /
ListCatch(error) ==
  Response(500, <<"Server error while fetching images">>, <<>>)

ListArrive(mode, users, folderIds) ==
  /\ \E p \in FreeSlots(mode), u \in users, folder \in folderIds :
       slot' = [slot EXCEPT ![p] =
                 [Idle EXCEPT !.kind = "list", !.pc = "list_start",
                              !.caller = u, !.fid = folder]]
  /\ Admit(mode)
  /\ UNCHANGED <<images, storage, nextId>>

\* if (folder) ... else query.folder = { $exists: false }
ListStart(p) ==
  /\ slot[p].pc = "list_start"
  /\ IF slot[p].fid # ""
     THEN Goto(p, "list_findFolder")
     ELSE Goto(p, "list_find")
  /\ UNCHANGED <<images, storage, nextId, served>>

\* await Folder.findOne(...)
ListFindFolder(p) ==
  /\ slot[p].pc = "list_findFolder"
  /\ \E fault \in BOOLEAN :
       IF fault
       THEN Reply(p, ListCatch(DbError), Logged("Get images error:", DbError))
       ELSE IF ~FolderOwned(slot[p].fid, slot[p].caller)
       THEN Reply(p, Response(404, <<"Folder not found">>, <<>>), NoLog)
       ELSE Goto(p, "list_find")
  /\ UNCHANGED <<images, storage, nextId, served>>

\* The documents { owner, folder } selects; folder "" is { $exists: false }.
ListQuery(store, caller, folder) ==
  { i \in store : i.owner = caller /\ i.folder = folder }

\* await Image.find(query).sort({ name: 1 }).populate(...), then res.json
ListFind(p) ==
  /\ slot[p].pc = "list_find"
  /\ LET r == slot[p]
     IN \E fault \in BOOLEAN :
          IF fault
          THEN Reply(p, ListCatch(DbError), Logged("Get images error:", DbError))
          ELSE \E found \in SortedByName(ListQuery(images, r.caller, r.fid)) :
                 Reply(p, Response(200, <<>>, [k \in DOMAIN found |-> Populate(found[k])]), NoLog)
  /\ UNCHANGED <<images, storage, nextId, served>>

\* ------------------------------------------------------------ GET /search
SearchCatch(error) ==
  Response(500, <<"Server error while searching images">>, <<>>)

SearchArrive(mode, users, searches) ==
  /\ \E p \in FreeSlots(mode), u \in users, q \in searches :
       slot' = [slot EXCEPT ![p] =
                 [Idle EXCEPT !.kind = "search", !.pc = "search_start",
                              !.caller = u, !.name = q]]
  /\ Admit(mode)
  /\ UNCHANGED <<images, storage, nextId>>

\* if (!q || !q.trim()) return res.json([])
SearchStart(p) ==
  /\ slot[p].pc = "search_start"
  /\ IF Blank(slot[p].name)
     THEN Reply(p, Response(200, <<>>, <<>>), NoLog)
     ELSE Goto(p, "search_find")
  /\ UNCHANGED <<images, storage, nextId, served>>

\* The documents { owner, name: { $regex: q.trim(), $options: "i" } } selects.
SearchQuery(store, caller, q) ==
  { i \in store : i.owner = caller /\ RegexMatchI(i.name, Trim(q)) }

\* await Image.find(...).sort(...).populate(...).limit(50), then res.json
SearchFind(p) ==
  /\ slot[p].pc = "search_find"
  /\ LET r == slot[p]
     IN \E fault \in BOOLEAN :
          IF fault
          THEN Reply(p, SearchCatch(DbError), Logged("Search images error:", DbError))
          ELSE \E sorted \in SortedByName(SearchQuery(images, r.caller, r.name)) :
                 LET found == Limit(sorted, SEARCH_LIMIT)
                 IN Reply(p, Response(200, <<>>, [k \in DOMAIN found |-> Populate(found[k])]), NoLog)
  /\ UNCHANGED <<images, storage, nextId, served>>

\* ---------------------------------------------------------- specifications
\* One step of a request that has arrived.
Step(p) ==
  \/ UploadIntake(p)
  \/ UploadFindFolder(p)
  \/ UploadFindImage(p)
  \/ UploadCloudinary(p)
  \/ UploadSave(p)
  \/ UploadPopulate(p)
  \/ RenameStart(p)
  \/ RenameFindImage(p)
  \/ RenameFindOther(p)
  \/ RenameSave(p)
  \/ DeleteFindImage(p)
  \/ DeleteCloudinary(p)
  \/ DeleteFindByIdAndDelete(p)
  \/ ListStart(p)
  \/ ListFindFolder(p)
  \/ ListFind(p)
  \/ SearchStart(p)
  \/ SearchFind(p)
  \/ Respond(p)

\* A request arrives.
Arrive(mode, users, names, folderIds, files, searches) ==
  \/ UploadArrive(mode, users, names, folderIds, files)
  \/ RenameArrive(mode, users, names)
  \/ DeleteArrive(mode, users)
  \/ ListArrive(mode, users, folderIds)
  \/ SearchArrive(mode, users, searches)

\* Requests are served concurrently: the steps of different requests
\* interleave at their awaits.
Next ==
  \/ Arrive("concurrent", RaceUsers, RaceNames, RaceFolderIds, RaceFiles, RaceSearches)
  \/ \E p \in Procs : Step(p)

Spec == Init /\ [][Next]_vars

\* Requests are served one at a time: a request arrives only when no other
\* is being served.
NextSeq ==
  \/ Arrive("one at a time", Users, NameInputs, FolderIds, FileInputs, SearchInputs)
  \/ \E p \in Procs : Step(p)

SpecSeq == Init /\ [][NextSeq]_vars

\* ------------------------------------------------------------ properties
\* Request p takes the step.
Stepped(p) == slot'[p] # slot[p]

\* Request p's step ran into no fault of the database or the cloud store.
NoFault(p) == slot'[p].err = NoLog

Ids(store) == { i.id : i \in store }

Ended(p, resp) == slot'[p].pc = "done" /\ slot'[p].resp = resp

DuplicateName == Response(400, <<"Image with this name already exists in the folder">>, <<>>)

\* No two records of the store have the same owner, folder and name.
NoDuplicates(store) ==
  \A i, j \in store :
    (i.owner = j.owner /\ i.folder = j.folder /\ i.name = j.name) => i = j

\* A record other than `except` of this owner and folder has this name.
NameTaken(store, owner, folder, name, except) ==
  \E i \in store :
    i.owner = owner /\ i.folder = folder /\ i.name = name /\ i.id # except

\* C1: served one at a time, uploads, renames and deletes never leave two
\* records with the same owner, folder and name; an upload or a rename whose
\* trimmed name another record of that owner and folder has is answered 400
\* "Image with this name already exists in the folder" and changes nothing.
C1_UniqueNames ==
  [][ /\ NoDuplicates(images')
      /\ \A p \in Procs :
           LET r == slot[p] IN
           /\ ( /\ r.pc = "upload_findImage" /\ Stepped(p) /\ NoFault(p)
                /\ NameTaken(images, r.caller, r.fid, Trim(r.name), 0) )
              => (Ended(p, DuplicateName) /\ images' = images /\ storage' = storage)
           /\ ( /\ r.pc = "rename_findOther" /\ Stepped(p) /\ NoFault(p)
                /\ \E t \in images :
                     /\ t.id = r.id /\ t.owner = r.caller
                     /\ NameTaken(images, r.caller, t.folder, Trim(r.name), t.id) )
              => (Ended(p, DuplicateName) /\ images' = images /\ storage' = storage)
    ]_vars

\* C1 witness: two records of the caller lie in one folder, and a rename of one
\* to the name of the other, sent with surrounding blanks, has been refused.
C1_Witness ==
  \E p \in Procs :
    /\ slot[p].kind = "rename" /\ slot[p].pc = "done" /\ slot[p].resp = DuplicateName
    /\ slot[p].name # Trim(slot[p].name)
    /\ \E i, j \in images :
         /\ i.id = slot[p].id /\ i.owner = slot[p].caller
         /\ j.id # i.id /\ j.owner = i.owner /\ j.folder = i.folder
         /\ j.name = Trim(slot[p].name)

\* An upload has been refused for its name, sent with surrounding blanks.
C1_UploadRefused ==
  \E p \in Procs :
    /\ slot[p].kind = "upload" /\ slot[p].pc = "done" /\ slot[p].resp = DuplicateName
    /\ slot[p].name # Trim(slot[p].name)

UploadFailed == Response(500, <<"Failed to upload image to cloud storage">>, <<>>)

\* C2: an upload that has passed every check and whose upload to the cloud
\* store fails ends with 500 "Failed to upload image to cloud storage", and
\* no step it took, the failing one included, changed the Image records.
C2_StorageFailureCreatesNothing ==
  [][ \A p \in Procs :
        LET r == slot[p] IN
        ( /\ r.pc \in {"upload_intake", "upload_findFolder", "upload_findImage",
                       "upload_cloudinary"}
          /\ Stepped(p) )
        => /\ images' = images
           /\ r.pc = "upload_cloudinary" =>
                /\ (slot'[p].pc = "done")
                     <=> (slot'[p].err = Logged("Cloudinary upload error:", StorageError))
                /\ slot'[p].pc = "done" => (Ended(p, UploadFailed) /\ storage' = storage)
    ]_vars

\* C2 witness: an upload that had passed every check has ended in the cloud
\* store's failure, and no record bears the storage key it asked for.
C2_Witness ==
  \E p \in Procs :
    /\ slot[p].kind = "upload" /\ slot[p].pc = "done"
    /\ slot[p].resp = UploadFailed
    /\ slot[p].err = Logged("Cloudinary upload error:", StorageError)
    /\ slot[p].key # NoKey
    /\ images # {}
    /\ \A i \in images : i.cloudinaryPublicId # slot[p].key

Deleted == Response(200, <<"Image deleted successfully">>, <<>>)

\* C3: a delete of an image the caller owns removes the record and answers
\* "Image deleted successfully" whether the deletion in the cloud store
\* succeeded or failed (unless the database call itself fails, which the
\* handler's catch answers with 500).
C3_DeleteIsBestEffort ==
  [][ \A p \in Procs :
        LET r == slot[p] IN
        /\ ( /\ r.pc = "delete_findImage" /\ Stepped(p) /\ NoFault(p)
             /\ \E i \in images : i.id = r.id /\ i.owner = r.caller )
           => (slot'[p].pc = "delete_cloudinary" /\ slot'[p].img.id = r.id)
        /\ (r.pc = "delete_cloudinary" /\ Stepped(p))
           => /\ slot'[p].pc = "delete_findByIdAndDelete"
              /\ slot'[p].img = r.img
              /\ images' = images
        /\ ( /\ r.pc = "delete_findByIdAndDelete" /\ Stepped(p)
             /\ slot'[p].err.label # "Delete image error:" )
           => /\ r.img.id \notin Ids(images')
              /\ Ended(p, Deleted)
    ]_vars

\* C3 witness: a delete has been answered with success although the cloud
\* store refused to delete: the object is still stored, the record is gone.
C3_Witness ==
  \E p \in Procs :
    /\ slot[p].kind = "delete" /\ slot[p].pc = "done"
    /\ slot[p].resp = Deleted
    /\ slot[p].err = Logged("Cloudinary delete error:", StorageError)
    /\ slot[p].img.id = slot[p].id
    /\ slot[p].img.id \notin Ids(images)
    /\ slot[p].img.cloudinaryPublicId \in storage

ImageNotFound == Response(404, <<"Image not found">>, <<>>)

\* The objects of the cloud store that lie in this user's namespace.
ObjectsOf(objects, u) == { k \in objects : k.folder = <<"users", u, "images">> }

\* C4: every step of a request of caller U leaves the records and the objects
\* of the other users as they are; list and search answer with records of U
\* only; an upload creates only a record of U in a folder of U; a rename or
\* a delete of an id that no record of U has is answered 404 "Image not
\* found" and changes nothing.
C4_OwnerScoped ==
  [][ \A p \in Procs :
        LET r == slot[p]
            u == r.caller
        IN Stepped(p) =>
           /\ r.kind # "idle" =>
                /\ { i \in images' : i.owner # u } = { i \in images : i.owner # u }
                /\ \A v \in Users \ {u} : ObjectsOf(storage', v) = ObjectsOf(storage, v)
           /\ r.pc \in {"list_find", "search_find"} =>
                \A k \in DOMAIN slot'[p].resp.body : slot'[p].resp.body[k].owner = u
           /\ r.kind = "upload" =>
                \A i \in images' \ images :
                  i.owner = u /\ \E f \in Folders : f._id = i.folder /\ f.owner = u
           /\ ( /\ r.pc \in {"rename_findImage", "delete_findImage"}
                /\ NoFault(p)
                /\ ~\E i \in images : i.id = r.id /\ i.owner = u )
              => (Ended(p, ImageNotFound) /\ images' = images /\ storage' = storage)
    ]_vars

\* C4 witness: a delete of a record of another user has been answered 404 and
\* the record is still stored.
C4_Witness ==
  \E p \in Procs :
    /\ slot[p].kind = "delete" /\ slot[p].pc = "done"
    /\ slot[p].resp = ImageNotFound
    /\ \E i \in images : i.id = slot[p].id /\ i.owner # slot[p].caller

\* C5: a record's owner, folder, URL and storage key (and size and type)
\* never change while it is stored; a stored record changes only in its
\* name, only by the save step of a rename of that record; and a rename is
\* refused for its name exactly when another record of the owner in the
\* folder of the stored record has that name.
C5_OnlyRenameMutates ==
  [][ /\ \A i \in images, j \in images' :
           (i.id = j.id /\ i # j) =>
             \E p \in Procs :
               /\ slot[p].pc = "rename_save" /\ Stepped(p)
               /\ slot[p].id = i.id
               /\ j = [i EXCEPT !.name = Trim(slot[p].name)]
      /\ \A p \in Procs :
           LET r == slot[p] IN
           (r.pc = "rename_findOther" /\ Stepped(p) /\ NoFault(p)) =>
             ( Ended(p, DuplicateName)
               <=> \E t \in images :
                     /\ t.id = r.id
                     /\ NameTaken(images, r.caller, t.folder, Trim(r.name), t.id) )
    ]_vars

\* C5 witness: a rename to another name has been answered 200, and the stored
\* record is the loaded one with the new name.
C5_Witness ==
  \E p \in Procs :
    /\ slot[p].kind = "rename" /\ slot[p].pc = "done" /\ slot[p].resp.status = 200
    /\ slot[p].img.name # Trim(slot[p].name)
    /\ [slot[p].img EXCEPT !.name = Trim(slot[p].name)] \in images
    /\ Cardinality(images) > 1

NameRequired == Response(400, <<"Image name is required">>, <<>>)
FolderIdRequired == Response(400, <<"Folder ID is required">>, <<>>)
FileRequired == Response(400, <<"Image file is required">>, <<>>)
FolderNotFound == Response(404, <<"Folder not found">>, <<>>)
FileTooLarge == Response(400, <<"File size too large. Maximum size is 5MB.">>, <<>>)

\* The file part is sent in the field the route reads and its content type
\* is not allowed.
WrongType(file) ==
  file.present /\ file.fieldname = "image" /\ file.mimetype \notin allowedTypes

\* The file part is sent in the field the route reads, its content type is
\* allowed and it is larger than the limit.
Oversize(file) ==
  /\ file.present /\ file.fieldname = "image"
  /\ file.mimetype \in allowedTypes /\ file.size > FILE_SIZE_LIMIT

\* The request sends no file part or sends it in the field the route reads.
ReadField(file) == file.present => file.fieldname = "image"

\* The checks of an upload leave the records and the objects as they are.
UploadChecksWriteNothing ==
  \A p \in Procs :
    ( /\ slot[p].pc \in {"upload_intake", "upload_findFolder", "upload_findImage"}
      /\ Stepped(p) )
    => (images' = images /\ storage' = storage)

\* The checks the handler makes after its first await, in their order.
UploadLookupsInOrder ==
  \A p \in Procs :
    LET r == slot[p] IN
    /\ (r.pc = "upload_findFolder" /\ Stepped(p) /\ NoFault(p)) =>
         IF ~\E f \in Folders : f._id = r.fid /\ f.owner = r.caller
         THEN Ended(p, FolderNotFound)
         ELSE slot'[p].pc = "upload_findImage"
    /\ (r.pc = "upload_findImage" /\ Stepped(p) /\ NoFault(p)) =>
         IF NameTaken(images, r.caller, r.fid, Trim(r.name), 0)
         THEN Ended(p, DuplicateName)
         ELSE slot'[p].pc = "upload_cloudinary"

C7_IntakeRejectionsAre400 ==
  [][ \A p \in Procs :
        LET r == slot[p] IN
        /\ (r.pc = "upload_intake" /\ Stepped(p)) =>
             /\ WrongType(r.file) => Ended(p, Response(400, InvalidFileTypeMsg, <<>>))
             /\ Oversize(r.file) => Ended(p, FileTooLarge)
        /\ (Stepped(p) /\ slot'[p].pc = "done") =>
             slot'[p].resp.status \in {200, 201, 400, 404, 500}
    ]_vars

\* C8: an upload whose save() is rejected with a ValidationError is answered
\* 400 with the validation messages joined by ", "; any other fault of the
\* database is answered 500.
C8_ValidationErrorIs400 ==
  \A p \in Procs :
    (slot[p].kind = "upload" /\ slot[p].pc = "done") =>
      /\ slot[p].err.name = "ValidationError" =>
           slot[p].resp = Response(400, <<"name: invalid", ", ", "size: required">>, <<>>)
      /\ slot[p].err.name = "MongoError" => slot[p].resp.status = 500

\* C9: the existence check is not redone at the write.  A request that has
\* passed its check and reached its save can still write, and be answered
\* with success, when another request has meanwhile stored a record with the
\* same owner, folder and name.
C9_WriteIgnoresLaterDuplicate ==
  \A p \in Procs :
    LET r == slot[p] IN
    /\ ( /\ r.pc = "upload_save"
         /\ NameTaken(images, r.caller, r.fid, r.img.name, 0) )
       => ENABLED ( /\ UploadSave(p)
                    /\ images' = images \cup {r.img}
                    /\ slot'[p].pc = "upload_populate" )
    /\ ( /\ r.pc = "rename_save"
         /\ r.img \in images
         /\ NameTaken(images, r.caller, r.img.folder, Trim(r.name), r.img.id) )
       => ENABLED ( /\ RenameSave(p)
                    /\ slot'[p].resp.status = 200
                    /\ [r.img EXCEPT !.name = Trim(r.name)] \in images' )

\* C9 witness: two uploads of one user for one folder and one trimmed name have
\* both been answered 201, and the store holds a record for each.
C9_Witness ==
  \E p, q \in Procs :
    /\ p # q
    /\ slot[p].kind = "upload" /\ slot[p].pc = "done" /\ slot[p].resp.status = 201
    /\ slot[q].kind = "upload" /\ slot[q].pc = "done" /\ slot[q].resp.status = 201
    /\ slot[p].caller = slot[q].caller /\ slot[p].fid = slot[q].fid
    /\ Trim(slot[p].name) = Trim(slot[q].name)
    /\ slot[p].img \in images /\ slot[q].img \in images
    /\ slot[p].img # slot[q].img

\* Two records share owner, folder and name after the requests in flight, a
\* rename among them, were all answered with success.
C9_RenameRace ==
  /\ \A p \in Procs : slot[p].pc = "done" /\ slot[p].resp.status \in {200, 201}
  /\ \E p \in Procs : slot[p].kind = "rename"
  /\ ~NoDuplicates(images)

\* The same after two renames: two uploads come first, so this takes four
\* requests (MaxRequests = 4).
C9_TwoRenamesRace ==
  /\ \A p \in Procs :
       slot[p].kind = "rename" /\ slot[p].pc = "done" /\ slot[p].resp.status = 200
  /\ ~NoDuplicates(images)

\* C10: an upload that ends with another response than 201 has created no
\* record and has left no object in the cloud store.
C10_NoPartialState ==
  [][ \A p \in Procs :
        LET r == slot[p] IN
        ( /\ r.kind = "upload" /\ r.pc # "done" /\ Stepped(p)
          /\ slot'[p].pc = "done" /\ slot'[p].resp.status # 201 )
        => IF r.pc \in {"upload_save", "upload_populate"}
           THEN r.img.id \notin Ids(images') /\ r.key \notin storage'
           ELSE images' = images /\ storage' = storage
    ]_vars

====
